---- MODULE Spec2Model ----
(***************************************************************************)
(* SportConnect: the optimistic like toggle of the Post component and the  *)
(* follow toggle of the Profile component, run against the Firestore       *)
(* document store (posts and users collections).                           *)
(*                                                                         *)
(* Store documents are records with an "exists" field; an absent document  *)
(* is the record with exists = FALSE and empty fields.  Arrays of the      *)
(* documents (likes, followers, following, likedPosts) are sequences, as   *)
(* in the code: includes / filter / spread-append.                         *)
(*                                                                         *)
(* A Firestore transaction (runTransaction) is one atomic step on the      *)
(* store: the SDK re-runs the update function on contention, so a commit   *)
(* is computed from the documents as they are at commit time.              *)
(*                                                                         *)
(* Every component instance is on screen from the start.  Leaving and      *)
(* re-entering its tab (App renders the tabs conditionally) replaces it by *)
(* a new instance with fresh React state; an async call of the old         *)
(* instance that still awaits its transaction keeps running detached: its  *)
(* transaction still commits or fails, its state setters do nothing.       *)
(***************************************************************************)
EXTENDS Naturals, Integers, Sequences, FiniteSets, TLC

\* ---------------------------------------------------------------- bounds
\* Total number of toggle invocations (like and follow) in one behaviour.
MaxToggles == 3

\* Number of posts in the feed that is ranked.
MaxPosts == 3

\* Length of the ranked output: .slice(0, 15) in the code, here short enough
\* for feeds of MaxPosts posts to be cut.
TopN == 2
\* comment documents a thread can hold
MaxComments == 2
\* ids in a list handed to a component that queries by id
MaxIds == 12

\* ------------------------------------------------------ universe of ids
Users == {"u1", "u2", "u3"}
Posts == {"p1"}

\* Post component instances (one per place/session a post is rendered in)
\* and the signed-in user each one is rendered for (prop `user`).
PostInsts == {"i1", "i2", "i3"}
PostUser == [i \in PostInsts |-> IF i = "i3" THEN "u2" ELSE "u1"]
PostId == [i \in PostInsts |-> "p1"]

\* a post of u1 that only comments are written to, and the comment threads
OtherPosts == {"q1"}
Threads == Posts \cup OtherPosts

\* Post instances whose comment form is used, with `user` and `post`:
\* u3 on the post of u1, u1 and u3 on the post of u3
CommentInsts == {"c1", "c2", "c3"}
CommentUser == [c \in CommentInsts |-> IF c = "c2" THEN "u1" ELSE "u3"]
CommentPost == [c \in CommentInsts |-> IF c = "c1" THEN "q1" ELSE "p1"]

\* Profile component instances with their props `currentUser` and `profileId`.
ProfInsts == {"f1", "f2", "f3"}
ProfUser == [f \in ProfInsts |-> IF f = "f1" THEN "u1" ELSE IF f = "f2" THEN "u3" ELSE "u2"]
profileId == [f \in ProfInsts |-> IF f = "f3" THEN "u3" ELSE "u2"]

\* the instances that act when the posts and the profiles are run together
BothPostInsts == {"i1", "i3"}

\* the instances of one user that act when two sessions of that user are run
SessionPostInsts == {"i1", "i2"}
BothProfInsts == {"f1"}
SinglePostInsts == {"i1"}

\* ------------------------------------------------------- array helpers
\* Array.prototype.includes
Includes(arr, x) == \E k \in 1..Len(arr) : arr[k] = x

\* arr.filter(id => id !== x)
Without(arr, x) == SelectSeq(arr, LAMBDA e : e # x)

\* the set of elements of an array
Elems(arr) == {arr[k] : k \in 1..Len(arr)}

\* Math.max(0, n - 1)
DecFloor(n) == IF n > 0 THEN n - 1 ELSE 0

\* ----------------------------------------------------------- documents
\* a post document that does not exist (snap.exists() = false)
NoPost == [exists |-> FALSE, likes |-> <<>>, likeCount |-> 0]

\* the post document written by CreatePost: likes [], likeCount 0
NewPost == [exists |-> TRUE, likes |-> <<>>, likeCount |-> 0]

\* A user document.  A field the document does not have reads as its default
\* (data.followers || [], data.followersCount || 0, ...); for the string
\* fields email, bio and profileImageUrl the value "absent" records that the
\* field is missing, "set" that it holds a non-empty string.
\* a user document that does not exist
NoUser ==
    [exists |-> FALSE, email |-> "absent", bio |-> "absent",
     profileImageUrl |-> "absent", followers |-> <<>>, followersCount |-> 0,
     following |-> <<>>, followingCount |-> 0, likedPosts |-> <<>>,
     postsCount |-> 0]

\* the user document written at sign-up: uid, email, displayName, createdAt
NewUser == [NoUser EXCEPT !.exists = TRUE, !.email = "set"]

\* ------------------------------------- documents as the Search tab reads them
\* Coordinates are whole numbers of the angle that spans 1 km of a great
\* circle.  A location that is not set is has = FALSE.
NoLocation == [has |-> FALSE, latitude |-> 0, longitude |-> 0]

Loc(lat, lon) == [has |-> TRUE, latitude |-> lat, longitude |-> lon]

\* const sports = ['tennis', 'basketball', ...]: the first two of the list
Sports == <<"tennis", "basketball">>

SportSet == {Sports[k] : k \in 1..Len(Sports)}

\* sportRatings undefined
NoRatings == [defined |-> FALSE, rated |-> {}, value |-> [s \in SportSet |-> 0]]

\* a sportRatings object with the keys of rs
Ratings(rs) ==
    [defined |-> TRUE, rated |-> DOMAIN rs,
     value |-> [s \in SportSet |-> IF s \in DOMAIN rs THEN rs[s] ELSE 0]]

\* sportRatings: {}
EmptyRatings == [defined |-> TRUE, rated |-> {}, value |-> [s \in SportSet |-> 0]]

\* the location and sportRatings fields of a user document that has neither
NoProfile == [location |-> NoLocation, sportRatings |-> NoRatings]

\* a post document as CreatePost writes it: userId, no userLocation, no
\* userSportRatings; id is the position in creation order
FeedPost(n, uid) ==
    [id |-> n, userId |-> uid, userLocation |-> NoLocation,
     userSportRatings |-> NoRatings]

\* the user whose Search tab is modelled
Viewer == "u1"

VARIABLES
    posts,              \* store: posts collection, Posts -> post document
    users,              \* store: users collection, Users -> user document
    postProp,           \* Post prop `post` (last data handed down by the list)
    currentPostData,    \* Post state currentPostData (what is displayed)
    busy,               \* Post state busy
    pc,                 \* position of the toggleLike call of the instance
    originalPostState,  \* toggleLike closure: const originalPostState
    snapInFlight,       \* history: the [post] effect ran while the call was unresolved
    detachedLikes,      \* per user and post: pending transactions of replaced instances
    currentUserProfile, \* Profile state currentUserProfile (exists = non-null)
    followLoading,      \* Profile state followLoading
    fpc,                \* position of the followUser call of the instance
    detachedFollows,    \* per instance slot: pending transactions of replaced instances
    likeParity,         \* history: user committed an odd number of like toggles on post
    nToggles,           \* number of toggle invocations so far
    nTransactions,      \* history: number of runTransaction calls issued so far
    delPc,              \* Settings: position of the handleDeleteAccount call of the user
    delPostsSnapshot,   \* handleDeleteAccount: postsSnapshot (ids of the user's posts)
    delUsersSnapshot,   \* handleDeleteAccount: allUsersSnapshot
    delCommentsSnapshot, \* handleDeleteAccount: commentsSnapshot of each post read
    comments,           \* store: comments subcollection of each post (userId of each document)
    commentCount,       \* store: commentCount field of each post document
    submittingComment,  \* Post state submittingComment of each commenting instance
    profiles,           \* store: location and sportRatings fields of the user documents
    feed,               \* store: the posts as the recommendation query returns them
    searchProfile,      \* Search state currentUserProfile
    loadingRecommendations, \* Search state loadingRecommendations
    recommendedPosts,   \* Search state recommendedPosts
    ids,                \* the id list a component is given (likedPostIds, userIds, following)
    lastLoad,           \* the function that issued the last 'in' queries
    inQueries           \* the value lists of the 'in' queries it issued, in order

vars == <<posts, users, postProp, currentPostData, busy, pc,
          originalPostState, snapInFlight, detachedLikes,
          currentUserProfile, followLoading, fpc, detachedFollows,
          likeParity, nToggles, nTransactions,
          delPc, delPostsSnapshot, delUsersSnapshot, delCommentsSnapshot,
          comments, commentCount, submittingComment,
          profiles, feed, searchProfile, loadingRecommendations,
          recommendedPosts, ids, lastLoad, inQueries>>

storeVars == <<posts, users>>
postVars == <<postProp, currentPostData, busy, pc, originalPostState,
              snapInFlight, detachedLikes>>
profVars == <<currentUserProfile, followLoading, fpc, detachedFollows>>
commentVars == <<comments, commentCount, submittingComment>>
settingsVars == <<delPc, delPostsSnapshot, delUsersSnapshot, delCommentsSnapshot,
                  commentVars>>
queryVars == <<ids, lastLoad, inQueries>>
searchVars == <<profiles, feed, searchProfile, loadingRecommendations,
                recommendedPosts, queryVars>>
toggleVars == <<postVars, profVars, likeParity, nToggles, nTransactions>>

\* value of a closure constant when no call is running
NoLocalPost == NoPost

\* useState<UserProfile | null>(null)
NoLocalUser == NoUser

\* Settings: no account deletion is running
SettingsAtRest ==
    /\ delPc = [u \in Users |-> "idle"]
    /\ delPostsSnapshot = [u \in Users |-> {}]
    /\ delUsersSnapshot = [u \in Users |-> [v \in Users |-> NoUser]]
    /\ delCommentsSnapshot = [u \in Users |-> [p \in Posts |-> 0]]
    /\ comments = [p \in Threads |-> <<>>]
    /\ commentCount = [p \in Threads |-> 0]
    /\ submittingComment = [c \in CommentInsts |-> FALSE]

\* Search: useState({}), useState(false), useState([])
SearchAtRest ==
    /\ searchProfile = NoProfile
    /\ loadingRecommendations = FALSE
    /\ recommendedPosts = <<>>
    /\ ids = <<>>
    /\ lastLoad = "none"
    /\ inQueries = <<>>

\* every Post and Profile as mounted, no call running
ComponentsAtRest ==
    /\ postProp = [i \in PostInsts |-> posts[PostId[i]]]
    /\ currentPostData = [i \in PostInsts |-> posts[PostId[i]]]
    /\ busy = [i \in PostInsts |-> FALSE]
    /\ pc = [i \in PostInsts |-> "idle"]
    /\ originalPostState = [i \in PostInsts |-> NoLocalPost]
    /\ snapInFlight = [i \in PostInsts |-> FALSE]
    /\ detachedLikes = [u \in Users |-> [p \in Posts |-> 0]]
    /\ currentUserProfile = [f \in ProfInsts |-> NoLocalUser]
    /\ followLoading = [f \in ProfInsts |-> FALSE]
    /\ fpc = [f \in ProfInsts |-> "idle"]
    /\ detachedFollows = [f \in ProfInsts |-> 0]
    /\ likeParity = [u \in Users |-> [p \in Posts |-> FALSE]]
    /\ nToggles = 0
    /\ nTransactions = 0

\* The post exists with no likes.  u1 and u2 have signed up or have no user
\* document yet; u3, who only views profiles, has signed up.
Init ==
    /\ posts = [p \in Posts |-> NewPost]
    /\ users \in {us \in [Users -> {NoUser, NewUser}] : us["u3"].exists}
    /\ ComponentsAtRest
    /\ SettingsAtRest
    /\ profiles = [u \in Users |-> NoProfile]
    /\ feed = <<>>
    /\ SearchAtRest

\* =====================================================================
\* Post component (src/components/Post.tsx, second definition)
\* =====================================================================

\* const liked = user && (currentPostData.likes || []).includes(user.uid)
liked(i) == Includes(currentPostData[i].likes, PostUser[i])

\* optimistic update: newLikesArray
newLikesArray(data, uid) ==
    IF Includes(data.likes, uid) THEN Without(data.likes, uid)
                                 ELSE Append(data.likes, uid)

\* mutant of OptimisticPost: no optimistic update, the display waits
OptimisticPostUnchanged(data, uid) == data

\* the object given to setCurrentPostData
OptimisticPost(data, uid) ==
    [data EXCEPT !.likes = newLikesArray(data, uid),
                 !.likeCount = Len(newLikesArray(data, uid))]

\* transaction body: new likes array from the post document read in the store
newLikes(postDataFromDb, uid) ==
    IF Includes(postDataFromDb.likes, uid)
    THEN Without(postDataFromDb.likes, uid)
    ELSE Append(postDataFromDb.likes, uid)

\* mutant of PostAfterLike: the count is incremented instead of recomputed
PostAfterLikeIncrement(postDataFromDb, uid) ==
    [postDataFromDb EXCEPT !.likes = newLikes(postDataFromDb, uid),
                           !.likeCount = postDataFromDb.likeCount + 1]

\* tx.update(postRef, { likes: newLikes, likeCount: newLikes.length })
PostAfterLike(postDataFromDb, uid) ==
    [postDataFromDb EXCEPT !.likes = newLikes(postDataFromDb, uid),
                           !.likeCount = Len(newLikes(postDataFromDb, uid))]

\* mutant of newUserLikedPosts: the post id is always appended
newUserLikedPostsAppendOnly(postDataFromDb, userData, uid, pid) ==
    Append(userData.likedPosts, pid)

\* newUserLikedPosts, from the user document (or {} when it does not exist)
newUserLikedPosts(postDataFromDb, userData, uid, pid) ==
    IF Includes(postDataFromDb.likes, uid)
    THEN Without(userData.likedPosts, pid)
    ELSE Append(userData.likedPosts, pid)

\* mutant of UserAfterLike: a missing user document is not created
UserAfterLikeNoCreate(postDataFromDb, userSnap, uid, pid) ==
    IF userSnap.exists
    THEN [userSnap EXCEPT
            !.likedPosts = newUserLikedPosts(postDataFromDb, userSnap, uid, pid)]
    ELSE userSnap

\* tx.update(userRef, {likedPosts}) or tx.set(userRef, {... defaults ...})
UserAfterLike(postDataFromDb, userSnap, uid, pid) ==
    IF userSnap.exists
    THEN [userSnap EXCEPT
            !.likedPosts = newUserLikedPosts(postDataFromDb, userSnap, uid, pid)]
    ELSE [exists |-> TRUE, email |-> "set", bio |-> "",
          profileImageUrl |-> "absent",
          followers |-> <<>>, followersCount |-> 0,
          following |-> <<>>, followingCount |-> 0,
          likedPosts |-> newUserLikedPosts(postDataFromDb, NoUser, uid, pid),
          postsCount |-> 0]

\* the writes of the toggleLike transaction, as a function of the store it reads
LikeStore(ps, us, uid, pid) ==
    [posts |-> [ps EXCEPT ![pid] = PostAfterLike(ps[pid], uid)],
     users |-> [us EXCEPT ![uid] = UserAfterLike(ps[pid], us[uid], uid, pid)]]

\* mutant of LikeTransaction: a missing post is written instead of rejected
LikeTransactionCreatesPost(i) ==
    LET uid == PostUser[i]
        pid == PostId[i]
    IN  /\ posts' = [posts EXCEPT ![pid] =
                       [PostAfterLike(posts[pid], uid) EXCEPT !.exists = TRUE]]
        /\ users' = LikeStore(posts, users, uid, pid).users
        /\ likeParity' = [likeParity EXCEPT ![uid][pid] = ~@]

\* mutant of LikeTransaction: the post is written from the likes the
\* component held when the toggle was invoked, not from the document read
LikeTransactionFromLocal(i) ==
    LET uid == PostUser[i]
        pid == PostId[i]
        local == newLikesArray(originalPostState[i], uid)
    IN  /\ posts[pid].exists
        /\ posts' = [posts EXCEPT ![pid] =
                       [@ EXCEPT !.likes = local, !.likeCount = Len(local)]]
        /\ users' = LikeStore(posts, users, uid, pid).users
        /\ likeParity' = [likeParity EXCEPT ![uid][pid] = ~@]

\* the whole transaction of toggleLike applied to the store;
\* it throws 'Post does not exist' when the post is not there
LikeTransaction(i) ==
    LET uid == PostUser[i]
        pid == PostId[i]
    IN  /\ posts[pid].exists
        /\ posts' = LikeStore(posts, users, uid, pid).posts
        /\ users' = LikeStore(posts, users, uid, pid).users
        /\ likeParity' = [likeParity EXCEPT ![uid][pid] = ~@]

\* The tab is left and entered again: a new Post instance, fresh state, with
\* the post data the list holds now; an unresolved call is detached.
RemountPost(i) ==
    /\ posts[PostId[i]].exists
    /\ postProp' = [postProp EXCEPT ![i] = posts[PostId[i]]]
    /\ currentPostData' = [currentPostData EXCEPT ![i] = posts[PostId[i]]]
    /\ busy' = [busy EXCEPT ![i] = FALSE]
    /\ pc' = [pc EXCEPT ![i] = "idle"]
    /\ originalPostState' = [originalPostState EXCEPT ![i] = NoLocalPost]
    /\ snapInFlight' = [snapInFlight EXCEPT ![i] = FALSE]
    /\ detachedLikes' =
         [detachedLikes EXCEPT ![PostUser[i]][PostId[i]] =
             IF pc[i] = "pending" THEN @ + 1 ELSE @]
    /\ UNCHANGED <<storeVars, profVars, likeParity, nToggles>>
    /\ UNCHANGED <<settingsVars, searchVars, nTransactions>>

\* The list's listener hands down a new `post`; the [post] effect copies it.
PostSnapshot(i) ==
    /\ posts[PostId[i]].exists
    /\ postProp[i] # posts[PostId[i]]
    /\ postProp' = [postProp EXCEPT ![i] = posts[PostId[i]]]
    /\ currentPostData' = [currentPostData EXCEPT ![i] = posts[PostId[i]]]
    /\ snapInFlight' = [snapInFlight EXCEPT ![i] = @ \/ pc[i] # "idle"]
    /\ UNCHANGED <<busy, pc, originalPostState, detachedLikes>>
    /\ UNCHANGED <<storeVars, profVars, likeParity, nToggles>>
    /\ UNCHANGED <<settingsVars, searchVars, nTransactions>>

\* toggleLike up to the await: guard, setBusy, snapshot, optimistic update
LikeInvoke(i) ==
    /\ ~busy[i]
    /\ nToggles < MaxToggles
    /\ busy' = [busy EXCEPT ![i] = TRUE]
    /\ originalPostState' = [originalPostState EXCEPT ![i] = currentPostData[i]]
    /\ currentPostData' =
         [currentPostData EXCEPT ![i] = OptimisticPost(currentPostData[i], PostUser[i])]
    /\ pc' = [pc EXCEPT ![i] = "pending"]
    /\ snapInFlight' = [snapInFlight EXCEPT ![i] = FALSE]
    /\ nToggles' = nToggles + 1
    /\ UNCHANGED <<postProp, detachedLikes>>
    /\ UNCHANGED <<storeVars, profVars, likeParity>>
    /\ nTransactions' = nTransactions + 1
    /\ UNCHANGED <<settingsVars, searchVars>>

\* the transaction commits
LikeCommit(i) ==
    /\ pc[i] = "pending"
    /\ LikeTransaction(i)
    /\ pc' = [pc EXCEPT ![i] = "committed"]
    /\ UNCHANGED <<postProp, currentPostData, busy, originalPostState,
                   snapInFlight, detachedLikes>>
    /\ UNCHANGED <<profVars, nToggles>>
    /\ UNCHANGED <<settingsVars, searchVars, nTransactions>>

\* mutant of LikeFail: the catch block runs the transaction once more
LikeFailRetries(i) ==
    /\ pc[i] = "pending"
    /\ nTransactions' = nTransactions + 1
    /\ UNCHANGED <<postProp, currentPostData, busy, pc, originalPostState,
                   snapInFlight, detachedLikes>>
    /\ UNCHANGED <<storeVars, profVars, likeParity, nToggles>>
    /\ UNCHANGED <<settingsVars, searchVars>>

\* the transaction rejects: 'Post does not exist' or a fault of the store
LikeFail(i) ==
    /\ pc[i] = "pending"
    /\ pc' = [pc EXCEPT ![i] = "failed"]
    /\ UNCHANGED <<postProp, currentPostData, busy, originalPostState,
                   snapInFlight, detachedLikes>>
    /\ UNCHANGED <<storeVars, profVars, likeParity, nToggles>>
    /\ UNCHANGED <<settingsVars, searchVars, nTransactions>>

\* mutant of LikeResolve: the catch block does not restore the display
LikeResolveNoRollback(i) ==
    /\ pc[i] \in {"committed", "failed"}
    /\ pc' = [pc EXCEPT ![i] = "idle"]
    /\ busy' = [busy EXCEPT ![i] = FALSE]
    /\ originalPostState' = [originalPostState EXCEPT ![i] = NoLocalPost]
    /\ snapInFlight' = [snapInFlight EXCEPT ![i] = FALSE]
    /\ UNCHANGED <<postProp, currentPostData, detachedLikes>>
    /\ UNCHANGED <<storeVars, profVars, likeParity, nToggles>>
    /\ UNCHANGED <<settingsVars, searchVars, nTransactions>>

\* mutant of LikeResolve: no finally block, busy is left set
LikeResolveKeepsBusy(i) ==
    /\ pc[i] \in {"committed", "failed"}
    /\ pc' = [pc EXCEPT ![i] = "idle"]
    /\ currentPostData' =
         IF pc[i] = "failed"
         THEN [currentPostData EXCEPT ![i] = originalPostState[i]]
         ELSE currentPostData
    /\ originalPostState' = [originalPostState EXCEPT ![i] = NoLocalPost]
    /\ snapInFlight' = [snapInFlight EXCEPT ![i] = FALSE]
    /\ UNCHANGED <<postProp, busy, detachedLikes>>
    /\ UNCHANGED <<storeVars, profVars, likeParity, nToggles>>
    /\ UNCHANGED <<settingsVars, searchVars, nTransactions>>

\* after the await: catch (rollback) and finally (setBusy(false))
LikeResolve(i) ==
    /\ pc[i] \in {"committed", "failed"}
    /\ pc' = [pc EXCEPT ![i] = "idle"]
    /\ currentPostData' =
         IF pc[i] = "failed"
         THEN [currentPostData EXCEPT ![i] = originalPostState[i]]
         ELSE currentPostData
    /\ busy' = [busy EXCEPT ![i] = FALSE]
    /\ originalPostState' = [originalPostState EXCEPT ![i] = NoLocalPost]
    /\ snapInFlight' = [snapInFlight EXCEPT ![i] = FALSE]
    /\ UNCHANGED <<postProp, detachedLikes>>
    /\ UNCHANGED <<storeVars, profVars, likeParity, nToggles>>
    /\ UNCHANGED <<settingsVars, searchVars, nTransactions>>

\* the transaction of a detached call commits; its setters do nothing
DetachedLikeCommit(i) ==
    /\ detachedLikes[PostUser[i]][PostId[i]] > 0
    /\ LikeTransaction(i)
    /\ detachedLikes' = [detachedLikes EXCEPT ![PostUser[i]][PostId[i]] = @ - 1]
    /\ UNCHANGED <<postProp, currentPostData, busy, pc, originalPostState,
                   snapInFlight>>
    /\ UNCHANGED <<profVars, nToggles>>
    /\ UNCHANGED <<settingsVars, searchVars, nTransactions>>

\* the transaction of a detached call rejects
DetachedLikeFail(i) ==
    /\ detachedLikes[PostUser[i]][PostId[i]] > 0
    /\ detachedLikes' = [detachedLikes EXCEPT ![PostUser[i]][PostId[i]] = @ - 1]
    /\ UNCHANGED <<postProp, currentPostData, busy, pc, originalPostState,
                   snapInFlight>>
    /\ UNCHANGED <<storeVars, profVars, likeParity, nToggles>>
    /\ UNCHANGED <<settingsVars, searchVars, nTransactions>>

PostStep(i) ==
    \/ RemountPost(i)
    \/ PostSnapshot(i)
    \/ LikeInvoke(i)
    \/ LikeCommit(i)
    \/ LikeFail(i)
    \/ LikeResolve(i)
    \/ DetachedLikeCommit(i)
    \/ DetachedLikeFail(i)

\* =====================================================================
\* Profile component (src/components/Profile.tsx, first definition)
\* =====================================================================

\* const isOwnProfile = currentUser.uid === profileId
isOwnProfile(f) == ProfUser[f] = profileId[f]

\* const isFollowing = currentUserProfile?.following?.includes(profileId)
isFollowing(f) == Includes(currentUserProfile[f].following, profileId[f])

\* mutant of CurrentAfterFollow: unfollow forgets the count
CurrentAfterFollowKeepsCount(currentUserData, targetUserId) ==
    IF Includes(currentUserData.following, targetUserId)
    THEN [currentUserData EXCEPT
            !.following = Without(currentUserData.following, targetUserId)]
    ELSE [currentUserData EXCEPT
            !.following = Append(currentUserData.following, targetUserId),
            !.followingCount = currentUserData.followingCount + 1]

\* mutant of CurrentAfterFollow: unfollow leaves the target in the array
CurrentAfterFollowKeepsFollowing(currentUserData, targetUserId) ==
    IF Includes(currentUserData.following, targetUserId)
    THEN [currentUserData EXCEPT
            !.followingCount = DecFloor(currentUserData.followingCount)]
    ELSE [currentUserData EXCEPT
            !.following = Append(currentUserData.following, targetUserId),
            !.followingCount = currentUserData.followingCount + 1]

\* transaction body, what is written to the current user's document
CurrentAfterFollow(currentUserData, targetUserId) ==
    IF Includes(currentUserData.following, targetUserId)
    THEN [currentUserData EXCEPT
            !.following = Without(currentUserData.following, targetUserId),
            !.followingCount = DecFloor(currentUserData.followingCount)]
    ELSE [currentUserData EXCEPT
            !.following = Append(currentUserData.following, targetUserId),
            !.followingCount = currentUserData.followingCount + 1]

\* mutant of TargetAfterFollow: unfollow leaves the follower in the array
TargetAfterFollowKeepsFollower(currentUserData, targetUserDoc, uid, targetUserId) ==
    IF Includes(currentUserData.following, targetUserId)
    THEN IF targetUserDoc.exists
         THEN [targetUserDoc EXCEPT
                 !.followersCount = DecFloor(targetUserDoc.followersCount)]
         ELSE targetUserDoc
    ELSE IF targetUserDoc.exists
         THEN [targetUserDoc EXCEPT
                 !.followers = Append(targetUserDoc.followers, uid),
                 !.followersCount = targetUserDoc.followersCount + 1]
         ELSE [exists |-> TRUE, email |-> "", bio |-> "",
               profileImageUrl |-> "",
               followers |-> <<uid>>, followersCount |-> 1,
               following |-> <<>>, followingCount |-> 0, likedPosts |-> <<>>,
               postsCount |-> 0]

\* transaction body, what is written to the target user's document
TargetAfterFollow(currentUserData, targetUserDoc, uid, targetUserId) ==
    IF Includes(currentUserData.following, targetUserId)
    THEN IF targetUserDoc.exists
         THEN [targetUserDoc EXCEPT
                 !.followers = Without(targetUserDoc.followers, uid),
                 !.followersCount = DecFloor(targetUserDoc.followersCount)]
         ELSE targetUserDoc
    ELSE IF targetUserDoc.exists
         THEN [targetUserDoc EXCEPT
                 !.followers = Append(targetUserDoc.followers, uid),
                 !.followersCount = targetUserDoc.followersCount + 1]
         ELSE [exists |-> TRUE, email |-> "", bio |-> "",
               profileImageUrl |-> "",
               followers |-> <<uid>>, followersCount |-> 1,
               following |-> <<>>, followingCount |-> 0, likedPosts |-> <<>>,
               postsCount |-> 0]

\* the writes of the followUser transaction, as a function of the users it reads
FollowStore(us, uid, tid) ==
    [us EXCEPT ![uid] = CurrentAfterFollow(us[uid], tid),
               ![tid] = TargetAfterFollow(us[uid], us[tid], uid, tid)]

\* the whole transaction of followUser applied to the store;
\* it throws when the current user's document is not there
FollowTransaction(f) ==
    /\ users[ProfUser[f]].exists
    /\ users' = FollowStore(users, ProfUser[f], profileId[f])

\* The profile is left and opened again: a new Profile instance whose
\* currentUserProfile starts as null; an unresolved call is detached.
RemountProfile(f) ==
    /\ currentUserProfile' = [currentUserProfile EXCEPT ![f] = NoLocalUser]
    /\ followLoading' = [followLoading EXCEPT ![f] = FALSE]
    /\ fpc' = [fpc EXCEPT ![f] = "idle"]
    /\ detachedFollows' =
         [detachedFollows EXCEPT ![f] = IF fpc[f] = "pending" THEN @ + 1 ELSE @]
    /\ UNCHANGED <<storeVars, postVars, likeParity, nToggles>>
    /\ UNCHANGED <<settingsVars, searchVars, nTransactions>>

\* listener on the signed-in user's document: copies it when it exists
ProfileSnapshot(f) ==
    /\ users[ProfUser[f]].exists
    /\ currentUserProfile[f] # users[ProfUser[f]]
    /\ currentUserProfile' = [currentUserProfile EXCEPT ![f] = users[ProfUser[f]]]
    /\ UNCHANGED <<followLoading, fpc, detachedFollows>>
    /\ UNCHANGED <<storeVars, postVars, likeParity, nToggles>>
    /\ UNCHANGED <<settingsVars, searchVars, nTransactions>>

\* followUser up to the await: the three guards and setFollowLoading(true)
FollowInvoke(f) ==
    /\ ~followLoading[f]
    /\ ~isOwnProfile(f)
    /\ currentUserProfile[f].exists
    /\ nToggles < MaxToggles
    /\ followLoading' = [followLoading EXCEPT ![f] = TRUE]
    /\ fpc' = [fpc EXCEPT ![f] = "pending"]
    /\ nToggles' = nToggles + 1
    /\ UNCHANGED <<currentUserProfile, detachedFollows>>
    /\ UNCHANGED <<storeVars, postVars, likeParity>>
    /\ nTransactions' = nTransactions + 1
    /\ UNCHANGED <<settingsVars, searchVars>>

\* the transaction commits; both documents are written in the one step
FollowCommit(f) ==
    /\ fpc[f] = "pending"
    /\ FollowTransaction(f)
    /\ fpc' = [fpc EXCEPT ![f] = "committed"]
    /\ UNCHANGED <<currentUserProfile, followLoading, detachedFollows>>
    /\ UNCHANGED <<posts, postVars, likeParity, nToggles>>
    /\ UNCHANGED <<settingsVars, searchVars, nTransactions>>

\* the transaction rejects: current user document missing, or a store fault
FollowFail(f) ==
    /\ fpc[f] = "pending"
    /\ fpc' = [fpc EXCEPT ![f] = "failed"]
    /\ UNCHANGED <<currentUserProfile, followLoading, detachedFollows>>
    /\ UNCHANGED <<storeVars, postVars, likeParity, nToggles>>
    /\ UNCHANGED <<settingsVars, searchVars, nTransactions>>

\* after the await: (alert on failure and) finally setFollowLoading(false)
FollowResolve(f) ==
    /\ fpc[f] \in {"committed", "failed"}
    /\ fpc' = [fpc EXCEPT ![f] = "idle"]
    /\ followLoading' = [followLoading EXCEPT ![f] = FALSE]
    /\ UNCHANGED <<currentUserProfile, detachedFollows>>
    /\ UNCHANGED <<storeVars, postVars, likeParity, nToggles>>
    /\ UNCHANGED <<settingsVars, searchVars, nTransactions>>

\* the transaction of a detached call commits; its setters do nothing
DetachedFollowCommit(f) ==
    /\ detachedFollows[f] > 0
    /\ FollowTransaction(f)
    /\ detachedFollows' = [detachedFollows EXCEPT ![f] = @ - 1]
    /\ UNCHANGED <<currentUserProfile, followLoading, fpc>>
    /\ UNCHANGED <<posts, postVars, likeParity, nToggles>>
    /\ UNCHANGED <<settingsVars, searchVars, nTransactions>>

\* the transaction of a detached call rejects
DetachedFollowFail(f) ==
    /\ detachedFollows[f] > 0
    /\ detachedFollows' = [detachedFollows EXCEPT ![f] = @ - 1]
    /\ UNCHANGED <<currentUserProfile, followLoading, fpc>>
    /\ UNCHANGED <<storeVars, postVars, likeParity, nToggles>>
    /\ UNCHANGED <<settingsVars, searchVars, nTransactions>>

ProfStep(f) ==
    \/ RemountProfile(f)
    \/ ProfileSnapshot(f)
    \/ FollowInvoke(f)
    \/ FollowCommit(f)
    \/ FollowFail(f)
    \/ FollowResolve(f)
    \/ DetachedFollowCommit(f)
    \/ DetachedFollowFail(f)

\* =====================================================================
\* Settings: handleDeleteAccount (account deletion, not a transaction)
\* =====================================================================

\* post.userId of the post
PostOwner == [p \in Posts |-> "u3"]

\* likedPosts.filter(postId => !postsToRemove.includes(postId))
WithoutAll(arr, rm) == SelectSeq(arr, LAMBDA e : e \notin rm)

\* needsUpdate for the user document userData when uid deletes the account
needsUpdate(userData, uid, postsToRemove) ==
    \/ Includes(userData.followers, uid)
    \/ Includes(userData.following, uid)
    \/ Len(WithoutAll(userData.likedPosts, postsToRemove)) # Len(userData.likedPosts)

\* batch.update(userDocSnap.ref, updates): the fields of `updates`, computed
\* from the document as it was read, are written over the stored document
UserAfterDelete(stored, userData, uid, postsToRemove) ==
    LET a == IF Includes(userData.followers, uid)
             THEN [stored EXCEPT
                     !.followers = Without(userData.followers, uid),
                     !.followersCount = DecFloor(userData.followersCount)]
             ELSE stored
        b == IF Includes(userData.following, uid)
             THEN [a EXCEPT
                     !.following = Without(userData.following, uid),
                     !.followingCount = DecFloor(userData.followingCount)]
             ELSE a
    IN  IF Len(WithoutAll(userData.likedPosts, postsToRemove)) # Len(userData.likedPosts)
        THEN [b EXCEPT !.likedPosts = WithoutAll(userData.likedPosts, postsToRemove)]
        ELSE b

\* getDocs(postsQuery): the posts of the user, and getDocs(commentsQuery)
\* for each of them: the comment documents the thread holds at that time
\* (a thread only grows while its post exists, so the documents read are
\* its first delCommentsSnapshot[u][p] entries)
DeleteReadPosts(u) ==
    /\ delPc[u] = "idle"
    /\ delPc' = [delPc EXCEPT ![u] = "readPosts"]
    /\ delPostsSnapshot' =
         [delPostsSnapshot EXCEPT
            ![u] = {p \in Posts : posts[p].exists /\ PostOwner[p] = u}]
    /\ delCommentsSnapshot' =
         [delCommentsSnapshot EXCEPT
            ![u] = [p \in Posts |->
                      IF posts[p].exists /\ PostOwner[p] = u
                      THEN Len(comments[p]) ELSE 0]]
    /\ UNCHANGED <<delUsersSnapshot, commentVars, storeVars, toggleVars, searchVars>>

\* getDocs(allUsersQuery): every user document
DeleteReadUsers(u) ==
    /\ delPc[u] = "readPosts"
    /\ delPc' = [delPc EXCEPT ![u] = "readUsers"]
    /\ delUsersSnapshot' = [delUsersSnapshot EXCEPT ![u] = users]
    /\ UNCHANGED <<delPostsSnapshot, delCommentsSnapshot, commentVars>>
    /\ UNCHANGED <<storeVars, toggleVars, searchVars>>

\* the thread of a post after batch.delete of the comment documents read
CommentsAfterDelete(thread, nRead) == SubSeq(thread, nRead + 1, Len(thread))

\* batch.commit(): the posts read and the comments read under them are
\* deleted, the user documents read that need it are updated, the user's
\* own document is deleted.  The batch is rejected when a document it
\* updates is no longer there.
DeleteCommit(u) ==
    LET rm == delPostsSnapshot[u]
        read == delUsersSnapshot[u]
        updated == {v \in Users : read[v].exists /\ needsUpdate(read[v], u, rm)}
    IN  /\ delPc[u] = "readUsers"
        /\ \A v \in updated : users[v].exists
        /\ posts' = [p \in Posts |-> IF p \in rm THEN NoPost ELSE posts[p]]
        /\ users' = [v \in Users |->
                       IF v = u THEN NoUser
                       ELSE IF v \in updated
                            THEN UserAfterDelete(users[v], read[v], u, rm)
                            ELSE users[v]]
        /\ comments' = [p \in Threads |->
                          IF p \in rm
                          THEN CommentsAfterDelete(comments[p], delCommentsSnapshot[u][p])
                          ELSE comments[p]]
        /\ commentCount' = [p \in Threads |-> IF p \in rm THEN 0 ELSE commentCount[p]]
        /\ delPc' = [delPc EXCEPT ![u] = "done"]
        /\ delPostsSnapshot' = [delPostsSnapshot EXCEPT ![u] = {}]
        /\ delUsersSnapshot' =
             [delUsersSnapshot EXCEPT ![u] = [v \in Users |-> NoUser]]
        /\ delCommentsSnapshot' =
             [delCommentsSnapshot EXCEPT ![u] = [p \in Posts |-> 0]]
        /\ UNCHANGED <<submittingComment, toggleVars, searchVars>>

\* a read or the commit rejects: catch (alert) and finally
DeleteFail(u) ==
    /\ delPc[u] \in {"readPosts", "readUsers"}
    /\ delPc' = [delPc EXCEPT ![u] = "idle"]
    /\ delPostsSnapshot' = [delPostsSnapshot EXCEPT ![u] = {}]
    /\ delUsersSnapshot' =
         [delUsersSnapshot EXCEPT ![u] = [v \in Users |-> NoUser]]
    /\ delCommentsSnapshot' =
         [delCommentsSnapshot EXCEPT ![u] = [p \in Posts |-> 0]]
    /\ UNCHANGED <<commentVars, storeVars, toggleVars, searchVars>>

DeleteStep(u) ==
    \/ DeleteReadPosts(u)
    \/ DeleteReadUsers(u)
    \/ DeleteCommit(u)
    \/ DeleteFail(u)

\* =====================================================================
\* Post component: addComment (a write batch)
\* =====================================================================

\* the post document of the thread is in the store
ThreadExists(p) == IF p \in Posts THEN posts[p].exists ELSE TRUE

\* a batch that sets the comment document only
CountAfterCommentOnly(count) == count

\* batch.update(postRef, { commentCount: increment(1) })
CountAfterComment(count) == count + 1

\* addComment up to batch.commit(): setSubmittingComment(true)
AddCommentInvoke(c) ==
    /\ ~submittingComment[c]
    /\ submittingComment' = [submittingComment EXCEPT ![c] = TRUE]
    /\ UNCHANGED <<comments, commentCount>>
    /\ UNCHANGED <<delPc, delPostsSnapshot, delUsersSnapshot, delCommentsSnapshot>>
    /\ UNCHANGED <<storeVars, toggleVars, searchVars>>

\* batch.commit() succeeds: the comment document is set and the count is
\* incremented together (update needs the post document to exist), finally
AddCommentCommit(c) ==
    LET p == CommentPost[c]
    IN  /\ submittingComment[c]
        /\ ThreadExists(p)
        /\ Len(comments[p]) < MaxComments
        /\ comments' = [comments EXCEPT ![p] = Append(@, CommentUser[c])]
        /\ commentCount' = [commentCount EXCEPT ![p] = CountAfterComment(@)]
        /\ submittingComment' = [submittingComment EXCEPT ![c] = FALSE]
        /\ UNCHANGED <<delPc, delPostsSnapshot, delUsersSnapshot, delCommentsSnapshot>>
        /\ UNCHANGED <<storeVars, toggleVars, searchVars>>

\* batch.commit() rejects: nothing is written, catch and finally
AddCommentFail(c) ==
    /\ submittingComment[c]
    /\ submittingComment' = [submittingComment EXCEPT ![c] = FALSE]
    /\ UNCHANGED <<comments, commentCount>>
    /\ UNCHANGED <<delPc, delPostsSnapshot, delUsersSnapshot, delCommentsSnapshot>>
    /\ UNCHANGED <<storeVars, toggleVars, searchVars>>

CommentStep(c) ==
    \/ AddCommentInvoke(c)
    \/ AddCommentCommit(c)
    \/ AddCommentFail(c)

\* =====================================================================
\* Search component: recommendations (loadRecommendations)
\* =====================================================================

\* The JavaScript value Infinity: above every distance and rating difference
\* that the code computes from the documents of the model.
Infinity == 1000000

\* Scores and rating differences are counted in twentieths of a point, so
\* that the average over two sports and the weights 0.7 and 0.3 give whole
\* numbers: Pts(x) is x points.  Distances are whole kilometres.
Pts(x) == x * 20

Abs(x) == IF x < 0 THEN 0 - x ELSE x

Min(a, b) == IF a <= b THEN a ELSE b

\* Great-circle distance in km.  The located users of the model that reach
\* this function are on one meridian, where it is the latitude difference
\* (latitudes counted in the angle of 1 km).
calculateHaversineDistance(lat1, lon1, lat2, lon2) == Abs(lat2 - lat1)

\* !userLoc || !postUserLoc || !userLoc.latitude || ... : a coordinate that is
\* 0 is falsy
calculateDistance(userLoc, postUserLoc) ==
    IF \/ ~userLoc.has \/ ~postUserLoc.has
       \/ userLoc.latitude = 0 \/ userLoc.longitude = 0
       \/ postUserLoc.latitude = 0 \/ postUserLoc.longitude = 0
    THEN Infinity
    ELSE calculateHaversineDistance(userLoc.latitude, userLoc.longitude,
                                    postUserLoc.latitude, postUserLoc.longitude)

\* userRatings[sport] as a condition: the key is there and the rating is not 0
Truthy(ratings, sport) == sport \in ratings.rated /\ ratings.value[sport] # 0

RECURSIVE SportLoop(_, _, _)
\* the for loop over sports from index k on: totalDiff and commonSports
SportLoop(k, userRatings, postUserRatings) ==
    IF k > Len(Sports)
    THEN [totalDiff |-> 0, commonSports |-> 0]
    ELSE LET rest == SportLoop(k + 1, userRatings, postUserRatings)
             sport == Sports[k]
         IN  IF Truthy(userRatings, sport) /\ Truthy(postUserRatings, sport)
             THEN [totalDiff |-> rest.totalDiff
                                   + Abs(userRatings.value[sport]
                                         - postUserRatings.value[sport]),
                   commonSports |-> rest.commonSports + 1]
             ELSE rest

\* in twentieths; Infinity when a side has no ratings or no sport is common
calculateSportRatingDifference(userRatings, postUserRatings) ==
    IF ~userRatings.defined \/ ~postUserRatings.defined
    THEN Infinity
    ELSE LET loop == SportLoop(1, userRatings, postUserRatings)
         IN  IF loop.commonSports = 0
             THEN Infinity
             ELSE Pts(loop.totalDiff) \div loop.commonSports

\* the four formulas of the location score, in points
UpTo10(distance) == distance * 10

\* mutant of UpTo50: the slope of the first segment is used again
UpTo50Steep(distance) == 100 + (distance - 10) * 10

UpTo50(distance) == 100 + (distance - 10) * 5

UpTo200(distance) == 300 + (distance - 50) * 2

Above200(distance) == 600 + Min(distance - 200, 400)

\* let locationScore = 1000; if (distance !== Infinity) { ... }
locationScore(distance) ==
    IF distance = Infinity THEN Pts(1000)
    ELSE IF distance <= 10 THEN Pts(UpTo10(distance))
    ELSE IF distance <= 50 THEN Pts(UpTo50(distance))
    ELSE IF distance <= 200 THEN Pts(UpTo200(distance))
    ELSE Pts(Above200(distance))

\* mutant of ratingScore: an unknown rating difference costs nothing
ratingScoreUnknownFree(ratingDifference) ==
    IF ratingDifference = Infinity THEN 0 ELSE ratingDifference * 10

\* ratingDifference === Infinity ? 100 : ratingDifference * 10
ratingScore(ratingDifference) ==
    IF ratingDifference = Infinity THEN Pts(100) ELSE ratingDifference * 10

\* (locationScore * 0.7) + (ratingScore * 0.3)
totalScore(locScore, ratScore) == (7 * locScore + 3 * ratScore) \div 10

\* users[post.userId]: the location and ratings of the owner's document
postUser(post) ==
    IF users[post.userId].exists THEN profiles[post.userId] ELSE NoProfile

\* post.userLocation || postUser?.location
postUserLocation(post) ==
    IF post.userLocation.has THEN post.userLocation ELSE postUser(post).location

\* post.userSportRatings || postUser?.sportRatings
postUserRatings(post) ==
    IF post.userSportRatings.defined
    THEN post.userSportRatings
    ELSE postUser(post).sportRatings

\* the distance of a post's owner from the viewer
postDistance(post) == calculateDistance(searchProfile.location, postUserLocation(post))

\* the rating difference of a post's owner and the viewer
postRatingDifference(post) ==
    calculateSportRatingDifference(searchProfile.sportRatings, postUserRatings(post))

\* the callback of .map: the post with its score and distance
\* (distance undefined when it is Infinity)
ScoredPost(post) ==
    [id |-> post.id, userId |-> post.userId,
     score |-> totalScore(locationScore(postDistance(post)),
                          ratingScore(postRatingDifference(post))),
     distanceKnown |-> postDistance(post) # Infinity,
     distance |-> IF postDistance(post) = Infinity THEN 0 ELSE postDistance(post)]

RECURSIVE MapScored(_)
MapScored(list) ==
    IF list = <<>> THEN <<>>
    ELSE <<ScoredPost(Head(list))>> \o MapScored(Tail(list))

\* mutant of Candidates: the viewer's own posts are kept
CandidatesWithOwn(list, uid) == list

\* posts.filter(post => post.userId !== user.uid)
Candidates(list, uid) == SelectSeq(list, LAMBDA post : post.userId # uid)

RECURSIVE InsertBeforeEqual(_, _)
\* mutant of InsertByScore: e is put before the entries of equal score
InsertBeforeEqual(sorted, e) ==
    IF sorted = <<>> THEN <<e>>
    ELSE IF Head(sorted).score < e.score
         THEN <<Head(sorted)>> \o InsertBeforeEqual(Tail(sorted), e)
         ELSE <<e>> \o sorted

RECURSIVE InsertByScore(_, _)
\* e placed in a sorted list by the comparator a.score - b.score, behind the
\* entries that compare equal (Array.prototype.sort is stable)
InsertByScore(sorted, e) ==
    IF sorted = <<>> THEN <<e>>
    ELSE IF Head(sorted).score <= e.score
         THEN <<Head(sorted)>> \o InsertByScore(Tail(sorted), e)
         ELSE <<e>> \o sorted

RECURSIVE SortByScore(_)
\* .sort((a, b) => a.score - b.score)
SortByScore(list) ==
    IF list = <<>> THEN <<>>
    ELSE InsertByScore(SortByScore(SubSeq(list, 1, Len(list) - 1)),
                       list[Len(list)])

\* .slice(0, n)
Slice(list, n) == SubSeq(list, 1, Min(n, Len(list)))

\* scoredPosts: filter, map, sort, slice
scoredPosts ==
    Slice(SortByScore(MapScored(Candidates(feed, Viewer))), TopN)

\* post.score && post.score < 500: the 'Recommended' badge is shown
Recommended(post) == post.score # 0 /\ post.score < Pts(500)

\* the condition of the effect that calls loadRecommendations
HasProfileData(profile) ==
    profile.location.has \/ profile.sportRatings.rated # {}

\* what the listener on the viewer's document puts into currentUserProfile:
\* location: data.location || null, sportRatings: data.sportRatings || {}
SnapshotProfile(data) ==
    [location |-> data.location,
     sportRatings |-> IF data.sportRatings.defined
                      THEN data.sportRatings ELSE EmptyRatings]

\* onSnapshot of the viewer's user document, and the effect on
\* [currentUserProfile] that starts loadRecommendations
SearchUserSnapshot ==
    /\ users[Viewer].exists
    /\ searchProfile # SnapshotProfile(profiles[Viewer])
    /\ searchProfile' = SnapshotProfile(profiles[Viewer])
    /\ loadingRecommendations' =
         (loadingRecommendations \/ HasProfileData(SnapshotProfile(profiles[Viewer])))
    /\ UNCHANGED <<profiles, feed, recommendedPosts>>
    /\ UNCHANGED <<storeVars, toggleVars, settingsVars, queryVars>>

\* loadRecommendations: both reads, the scoring, setRecommendedPosts, finally
LoadRecommendations ==
    /\ loadingRecommendations
    /\ recommendedPosts' = scoredPosts
    /\ loadingRecommendations' = FALSE
    /\ UNCHANGED <<profiles, feed, searchProfile>>
    /\ UNCHANGED <<storeVars, toggleVars, settingsVars, queryVars>>

\* loadRecommendations: a read rejects, catch and finally
LoadRecommendationsFail ==
    /\ loadingRecommendations
    /\ loadingRecommendations' = FALSE
    /\ UNCHANGED <<profiles, feed, searchProfile, recommendedPosts>>
    /\ UNCHANGED <<storeVars, toggleVars, settingsVars, queryVars>>

SearchNext ==
    \/ SearchUserSnapshot
    \/ LoadRecommendations
    \/ LoadRecommendationsFail

\* ---- the documents the Search tab is run on

\* distances from the viewer at Loc(1, 1) that the located users are at
DistanceSamples == {0, 5, 10, 11, 50, 51, 200, 201, 600, 601, 700}

FewDistances == {0, 10, 50, 200, 600}

ViewerLocations == {NoLocation, Loc(0, 0), Loc(1, 1)}

ViewerRatings ==
    {NoRatings,
     Ratings("tennis" :> 5),
     Ratings(("tennis" :> 5) @@ ("basketball" :> 3)),
     Ratings(("tennis" :> 0) @@ ("basketball" :> 3))}

\* NoLocation, a point on the prime meridian 10 km from Loc(0, 0), and the
\* points on the viewer's meridian
OwnerLocations(distances) ==
    {NoLocation, Loc(10, 0)} \cup {Loc(1 + d, 1) : d \in distances}

OwnerRatings ==
    {NoRatings,
     Ratings("tennis" :> 5),
     Ratings("basketball" :> 3),
     Ratings(("tennis" :> 2) @@ ("basketball" :> 6)),
     Ratings(("tennis" :> 4) @@ ("basketball" :> 0))}

FewRatings == {NoRatings, Ratings("tennis" :> 5), Ratings("basketball" :> 3)}

ProfilesOf(locations, ratings) ==
    {[location |-> l, sportRatings |-> r] : l \in locations, r \in ratings}

\* every user has signed up; no toggle and no deletion is running
StoreForSearch ==
    /\ posts = [p \in Posts |-> NewPost]
    /\ users = [u \in Users |-> NewUser]
    /\ ComponentsAtRest
    /\ SettingsAtRest
    /\ SearchAtRest

\* one post of u2 and one of u3, in either order; the profiles vary
InitScore ==
    /\ StoreForSearch
    /\ feed \in {<<FeedPost(1, "u2"), FeedPost(2, "u3")>>,
                 <<FeedPost(1, "u3"), FeedPost(2, "u2")>>}
    /\ profiles \in
         {pr \in [Users -> ProfilesOf(ViewerLocations, ViewerRatings)
                           \cup ProfilesOf(OwnerLocations(DistanceSamples), OwnerRatings)] :
            /\ pr["u1"] \in ProfilesOf(ViewerLocations, ViewerRatings)
            /\ pr["u2"] \in ProfilesOf(OwnerLocations(DistanceSamples), OwnerRatings)
            /\ pr["u3"] \in ProfilesOf(OwnerLocations(FewDistances), FewRatings)}

SpecScore == InitScore /\ [][SearchNext]_vars

\* the feeds of up to MaxPosts posts of u1, u2 and u3
Feeds ==
    UNION {{[k \in 1..n |-> FeedPost(k, owner[k])] : owner \in [1..n -> Users]}
             : n \in 0..MaxPosts}

\* the viewer at Loc(1, 1) rates tennis 5; the owners are at 0, 10 or 50 km
\* or have no location, and rate tennis 5 or nothing
InitRank ==
    /\ StoreForSearch
    /\ feed \in Feeds
    /\ profiles \in
         {pr \in [Users -> ProfilesOf({NoLocation, Loc(1, 1), Loc(11, 1), Loc(51, 1)},
                                      {NoRatings, Ratings("tennis" :> 5)})] :
            pr["u1"] = [location |-> Loc(1, 1),
                        sportRatings |-> Ratings("tennis" :> 5)]}

SpecRank == InitRank /\ [][SearchNext]_vars

\* ---- the Explore tab and the Settings dialog of the viewer

\* recentPosts: the listener on posts ordered by createdAt desc
recentPosts == feed

\* the list the Explore tab maps over:
\* recommendedPosts.length > 0 ? recommendedPosts : recentPosts.slice(0, 10)
ExploreList ==
    IF Len(recommendedPosts) > 0 THEN recommendedPosts ELSE Slice(recentPosts, 10)

\* the Refresh button, disabled={loadingRecommendations}: onClick calls
\* loadRecommendations whatever the profile holds
RefreshRecommendations ==
    /\ ~loadingRecommendations
    /\ loadingRecommendations' = TRUE
    /\ UNCHANGED <<profiles, feed, searchProfile, recommendedPosts>>
    /\ UNCHANGED <<storeVars, toggleVars, settingsVars, queryVars>>

\* the sportRatings the dialog can hold: every key removed, or tennis rated
SettingsRatings == {EmptyRatings, Ratings("tennis" :> 5)}

\* selectedLocation: null, or a place
SettingsLocations == {NoLocation, Loc(1, 1)}

\* handleSave of the viewer: updateDoc with sportRatings, and with location
\* only if one is selected
handleSave(sportRatings, selectedLocation) ==
    /\ users[Viewer].exists
    /\ profiles' =
         [profiles EXCEPT ![Viewer] =
            [location |-> IF selectedLocation.has
                          THEN selectedLocation ELSE @.location,
             sportRatings |-> sportRatings]]
    /\ UNCHANGED <<feed, searchProfile, loadingRecommendations, recommendedPosts>>
    /\ UNCHANGED <<storeVars, toggleVars, settingsVars, queryVars>>

ExploreNext ==
    \/ SearchNext
    \/ RefreshRecommendations
    \/ \E r \in SettingsRatings, l \in SettingsLocations : handleSave(r, l)

\* up to two posts of other users; the viewer has saved nothing yet or has
\* rated tennis; the owners are 10 km from Loc(1, 1), one rates tennis
InitExplore ==
    /\ StoreForSearch
    /\ feed \in {<<>>, <<FeedPost(1, "u2")>>,
                 <<FeedPost(1, "u2"), FeedPost(2, "u3")>>}
    /\ profiles \in
         {pr \in [Users -> ProfilesOf({NoLocation, Loc(11, 1)},
                                      {NoRatings, Ratings("tennis" :> 5)})] :
            /\ ~pr["u1"].location.has
            /\ pr["u2"] = [location |-> Loc(11, 1),
                           sportRatings |-> Ratings("tennis" :> 5)]
            /\ pr["u3"] = [location |-> Loc(11, 1), sportRatings |-> NoRatings]}

SpecExplore == InitExplore /\ [][ExploreNext]_vars

\* posts and profiles together
Next ==
    \/ \E i \in BothPostInsts : PostStep(i)
    \/ \E f \in BothProfInsts : ProfStep(f)

Spec == Init /\ [][Next]_vars

\* the post in two sessions of the same user u1 (two devices, or two lists)
SessionsNext == \E i \in SessionPostInsts : PostStep(i)

SpecSessions == Init /\ [][SessionsNext]_vars

\* u1 on the post while its owner deletes the account
DeleteNext ==
    \/ \E i \in SinglePostInsts : PostStep(i)
    \/ DeleteStep(PostOwner["p1"])

SpecDelete == Init /\ [][DeleteNext]_vars

\* one Post and one Profile of u1; the continuation of an await whose
\* promise has settled is run by the event loop, so a resolved call does
\* reach its catch / finally
LiveNext ==
    \/ \E i \in SinglePostInsts : PostStep(i)
    \/ \E f \in BothProfInsts : ProfStep(f)

SpecLive ==
    /\ Init
    /\ [][LiveNext]_vars
    /\ \A i \in SinglePostInsts : WF_vars(LikeResolve(i))
    /\ \A f \in BothProfInsts : WF_vars(FollowResolve(f))

\* the profiles alone: u1 and u3 on the profile of u2, u2 on the profile of u3
FollowNext == \E f \in ProfInsts : ProfStep(f)

SpecFollow == Init /\ [][FollowNext]_vars

\* =====================================================================
\* LikedPosts, FollowersModal, Activity: queries by a list of ids
\* =====================================================================

\* for (let i = 0; i < ids.length; i += 10) batches.push(ids.slice(i, i + 10))
RECURSIVE batchesFrom(_, _)
batchesFrom(list, i) ==
    IF i < Len(list)
    THEN <<SubSeq(list, i + 1, Min(i + 10, Len(list)))>> \o batchesFrom(list, i + 10)
    ELSE <<>>

batches(list) == batchesFrom(list, 0)

\* where('userId', 'in', userProfile.following): one query with the list
followingQuery(following) == <<following>>

\* the listener delivers the list with one more id (a like, a follow)
IdAdded ==
    /\ Len(ids) < MaxIds
    /\ ids' = Append(ids, Len(ids) + 1)
    /\ UNCHANGED <<lastLoad, inQueries>>
    /\ UNCHANGED <<profiles, feed, searchProfile, loadingRecommendations, recommendedPosts>>
    /\ UNCHANGED <<storeVars, toggleVars, settingsVars>>

\* LikedPosts: the effect on [likedPostIds] and loadLikedPosts(likedPostIds)
loadLikedPosts ==
    /\ Len(ids) > 0
    /\ lastLoad' = "loadLikedPosts"
    /\ inQueries' = batches(ids)
    /\ UNCHANGED ids
    /\ UNCHANGED <<profiles, feed, searchProfile, loadingRecommendations, recommendedPosts>>
    /\ UNCHANGED <<storeVars, toggleVars, settingsVars>>

\* FollowersModal: the effect on [isOpen, userIds] and loadUsers()
loadUsers ==
    /\ Len(ids) > 0
    /\ lastLoad' = "loadUsers"
    /\ inQueries' = batches(ids)
    /\ UNCHANGED ids
    /\ UNCHANGED <<profiles, feed, searchProfile, loadingRecommendations, recommendedPosts>>
    /\ UNCHANGED <<storeVars, toggleVars, settingsVars>>

\* Activity: the effect on [userProfile?.following] that builds the query
ActivityFollowingPosts ==
    /\ Len(ids) > 0
    /\ lastLoad' = "Activity"
    /\ inQueries' = followingQuery(ids)
    /\ UNCHANGED ids
    /\ UNCHANGED <<profiles, feed, searchProfile, loadingRecommendations, recommendedPosts>>
    /\ UNCHANGED <<storeVars, toggleVars, settingsVars>>

QueriesNext ==
    \/ IdAdded
    \/ loadLikedPosts
    \/ loadUsers
    \/ ActivityFollowingPosts

SpecQueries == Init /\ [][QueriesNext]_vars

\* the profiles act while u3 deletes the account
DeleteFollowNext ==
    \/ \E f \in ProfInsts : ProfStep(f)
    \/ DeleteStep(PostOwner["p1"])

SpecDeleteFollow == Init /\ [][DeleteFollowNext]_vars

\* comments are written while the owner of the post deletes the account
CommentsNext ==
    \/ \E c \in CommentInsts : CommentStep(c)
    \/ DeleteStep(PostOwner["p1"])

SpecComments == Init /\ [][CommentsNext]_vars

\* =====================================================================
\* Properties
\* =====================================================================

\* C1: in every reachable state of the store, whatever like toggles have
\* committed or failed, each post's likeCount is the number of actor ids in
\* its likes.
C1_LikeCountIsLikesSize ==
    \A p \in Posts :
        posts[p].exists => posts[p].likeCount = Cardinality(Elems(posts[p].likes))

\* both users have liked the post, one toggle is still unresolved
C1_Witness ==
    /\ Elems(posts["p1"].likes) = {"u1", "u2"}
    /\ posts["p1"].likeCount = 2
    /\ \E i \in PostInsts : pc[i] = "committed"

C3_NoLostLikeToggle ==
    \A u \in Users : \A p \in Posts :
        posts[p].exists => (Includes(posts[p].likes, u) <=> likeParity[u][p])

\* u1 and u2 both toggled from a display with no likes, u2 committed first,
\* then u1, and neither call has resolved yet
C3_Witness ==
    /\ pc["i1"] = "committed" /\ pc["i3"] = "committed"
    /\ originalPostState["i1"].likes = <<>>
    /\ originalPostState["i3"].likes = <<>>
    /\ posts["p1"].likes = <<"u2", "u1">>

\* number of like transactions in flight for user u on post p
InFlightLikes(u, p) ==
    Cardinality({i \in PostInsts :
                    PostUser[i] = u /\ PostId[i] = p /\ pc[i] = "pending"})
    + detachedLikes[u][p]

\* number of follow transactions in flight for the (user, profile) pair of
\* instance f; no two Profile instances share their pair
InFlightFollows(f) ==
    (IF fpc[f] = "pending" THEN 1 ELSE 0) + detachedFollows[f]

\* C4: for every (actor, entity) pair at most one toggle transaction is in
\* flight at any time, for likes and for follows, also across a remount of
\* the component.
C4_AtMostOneInFlight ==
    /\ \A u \in Users : \A p \in Posts : InFlightLikes(u, p) <= 1
    /\ \A f \in ProfInsts : InFlightFollows(f) <= 1

\* C5: when the like transaction fails, the display after the failure is
\* handled is exactly the post data the component held at the moment the
\* toggle was invoked: the call captures it on invocation, keeps it while the
\* transaction is unresolved, and the catch block puts it back.
C5_RollbackRestoresCaptured ==
    [][\A i \in PostInsts :
          /\ (pc[i] = "idle" /\ pc'[i] = "pending")
                => originalPostState'[i] = currentPostData[i]
          /\ (pc[i] = "pending" /\ pc'[i] # "idle")
                => originalPostState'[i] = originalPostState[i]
          /\ (LikeResolve(i) /\ pc[i] = "failed")
                => currentPostData'[i] = originalPostState[i]]_vars

\* the transaction of i1 has failed and its catch block is about to run; the
\* display differs from the captured data
C5_Witness ==
    /\ pc["i1"] = "failed"
    /\ currentPostData["i1"] # originalPostState["i1"]
    /\ posts["p1"].exists

C7_DisplayMatchesStoreAfterCommit ==
    [][\A i \in PostInsts :
          (LikeResolve(i) /\ pc[i] = "committed")
             => (liked(i)' <=> Includes(posts'[PostId[i]].likes, PostUser[i]))]_vars

\* C8: a rollback does not replace post data that the list handed down while
\* the toggle was unresolved by the older data captured at invocation: after
\* the failure is handled the display is the newest data received.
C8_RollbackKeepsNewerSnapshot ==
    [][\A i \in PostInsts :
          (LikeResolve(i) /\ pc[i] = "failed" /\ snapInFlight[i])
             => currentPostData'[i] = postProp[i]]_vars

\* C9: from every reachable store, two toggle transactions of the same user on
\* the same entity, committed one after the other with nothing in between,
\* leave the membership sets as sets as they were, with counts equal to
\* their sizes: likes of the post, following of the user, followers of the
\* target.
C9_DoubleToggleRestoresMembership ==
    /\ \A u \in Users : \A p \in Posts :
          LET once == LikeStore(posts, users, u, p)
              twice == LikeStore(once.posts, once.users, u, p)
          IN  posts[p].exists =>
                /\ Elems(twice.posts[p].likes) = Elems(posts[p].likes)
                /\ twice.posts[p].likeCount =
                      Cardinality(Elems(posts[p].likes))
    /\ \A u \in Users : \A t \in Users \ {u} :
          LET once == FollowStore(users, u, t)
              twice == FollowStore(once, u, t)
          IN  users[u].exists =>
                /\ Elems(twice[u].following) = Elems(users[u].following)
                /\ twice[u].followingCount =
                      Cardinality(Elems(users[u].following))
                /\ Elems(twice[t].followers) = Elems(users[t].followers)
                /\ twice[t].followersCount =
                      Cardinality(Elems(users[t].followers))

\* u1 is in the likes ahead of u2, and follows u2: the two toggles of u1 take
\* u1 out and put u1 back (at the end of the array)
C9_Witness ==
    /\ posts["p1"].likes = <<"u1", "u2">>
    /\ users["u1"].following = <<"u2">>
    /\ users["u2"].followers = <<"u1">>

\* C10: a step that makes user u a liker of a post while u has no user
\* document creates that document, in the same step, with the default fields
\* and likedPosts holding the post; a step that makes u a follower of t while
\* t has no user document creates t's document, in the same step, with
\* followers = [u], followersCount = 1 and the other defaults.  A pending
\* toggle can commit whether or not the counter-entity document exists.
C10_MissingCounterEntityIsCreated ==
    /\ [](\A i \in PostInsts :
            (pc[i] = "pending" /\ posts[PostId[i]].exists)
               => ENABLED LikeCommit(i))
    /\ [](\A f \in ProfInsts :
            (fpc[f] = "pending" /\ users[ProfUser[f]].exists)
               => ENABLED FollowCommit(f))
    /\ [][
       /\ \A u \in Users : \A p \in Posts :
             (/\ ~users[u].exists
              /\ ~Includes(posts[p].likes, u)
              /\ Includes(posts'[p].likes, u))
                => users'[u] = [NoUser EXCEPT !.exists = TRUE, !.email = "set",
                                              !.bio = "", !.likedPosts = <<p>>]
       /\ \A u \in Users : \A t \in Users \ {u} :
             (/\ ~users[t].exists
              /\ ~Includes(users[u].following, t)
              /\ Includes(users'[u].following, t))
                => users'[t] = [NoUser EXCEPT !.exists = TRUE, !.email = "",
                                              !.bio = "", !.profileImageUrl = "",
                                              !.followers = <<u>>,
                                              !.followersCount = 1]]_vars

\* u1's document was created by u1's like (bio '' but no profileImageUrl) and
\* u2's by u1's follow (email ''), each holding the new member
C10_Witness ==
    /\ users["u1"].exists /\ users["u1"].bio = ""
    /\ users["u1"].profileImageUrl = "absent"
    /\ users["u1"].likedPosts = <<"p1">>
    /\ Includes(posts["p1"].likes, "u1")
    /\ users["u2"].exists /\ users["u2"].email = ""
    /\ users["u2"].followers = <<"u1">>
    /\ users["u1"].following = <<"u2">>

\* C11: while the post document does not exist, no toggle writes anything:
\* a pending like transaction cannot commit, every step other than a step of
\* the account deletion leaves the posts and the users collection as they
\* are (the post is not recreated, the user document of the actor is neither
\* created nor changed), and when the failure is handled the display is put
\* back to the data captured at invocation.
C11_MissingPostFailsWithoutWrites ==
    /\ [](\A i \in PostInsts :
            (pc[i] = "pending" /\ ~posts[PostId[i]].exists)
               => ~ENABLED LikeCommit(i))
    /\ [][
       /\ ((\A p \in Posts : ~posts[p].exists) /\ delPc' = delPc)
             => (posts' = posts /\ users' = users)
       /\ \A i \in PostInsts :
             (~posts[PostId[i]].exists /\ pc[i] = "pending" /\ pc'[i] # "pending")
                => pc'[i] \in {"failed", "idle"}
       /\ \A i \in PostInsts :
             (~posts[PostId[i]].exists /\ LikeResolve(i) /\ pc[i] = "failed")
                => currentPostData'[i] = originalPostState[i]]_vars

\* the post is gone, u1's like of it has been rejected and is about to be
\* rolled back; u1 still has no user document
C11_Witness ==
    /\ ~posts["p1"].exists
    /\ pc["i1"] = "failed"
    /\ liked("i1") /\ ~Includes(originalPostState["i1"].likes, "u1")
    /\ ~users["u1"].exists

\* the moves of a toggle call: Idle -> Pending -> Committed | Failed -> Idle;
\* a component that is mounted again starts at Idle
ToggleMoves ==
    {<<"idle", "pending">>, <<"pending", "committed">>, <<"pending", "failed">>,
     <<"committed", "idle">>, <<"failed", "idle">>, <<"pending", "idle">>}

\* C12: a like or follow call moves Idle -> Pending -> exactly one of
\* Committed or Failed (rolled back) -> Idle, the only other move being the
\* reset of a component that is mounted again; the in-flight flag (busy,
\* followLoading) is set exactly while the call is not Idle; once the
\* transaction has resolved the flag is eventually cleared; and with the flag
\* cleared the next toggle is accepted.
C12_ToggleLifecycle ==
    /\ [][/\ \A i \in PostInsts :
               /\ pc'[i] # pc[i] => <<pc[i], pc'[i]>> \in ToggleMoves
               /\ busy'[i] <=> pc'[i] # "idle"
          /\ \A f \in ProfInsts :
               /\ fpc'[f] # fpc[f] => <<fpc[f], fpc'[f]>> \in ToggleMoves
               /\ followLoading'[f] <=> fpc'[f] # "idle"]_vars
    /\ \A i \in SinglePostInsts :
          (pc[i] \in {"committed", "failed"}) ~> ~busy[i]
    /\ \A f \in BothProfInsts :
          (fpc[f] \in {"committed", "failed"}) ~> ~followLoading[f]
    /\ [](\A i \in SinglePostInsts :
            (~busy[i] /\ nToggles < MaxToggles) => ENABLED LikeInvoke(i))
    /\ [](\A f \in BothProfInsts :
            (~followLoading[f] /\ currentUserProfile[f].exists
               /\ nToggles < MaxToggles) => ENABLED FollowInvoke(f))

\* a like has committed and a follow has failed, both flags still set
C12_Witness ==
    /\ pc["i1"] = "committed" /\ busy["i1"]
    /\ fpc["f1"] = "failed" /\ followLoading["f1"]

\* C13: one toggle invocation issues at most one transaction: the number of
\* runTransaction calls never exceeds the number of accepted invocations, a
\* transaction is only issued by the step that accepts an invocation (a call
\* leaving Idle), and a call whose transaction failed stays failed until it
\* returns to Idle.
C13_NoAutomaticRetry ==
    /\ [](nTransactions <= nToggles)
    /\ [][/\ nTransactions' # nTransactions =>
               /\ nTransactions' = nTransactions + 1
               /\ nToggles' = nToggles + 1
               /\ \/ \E i \in PostInsts : pc[i] = "idle" /\ pc'[i] = "pending"
                  \/ \E f \in ProfInsts : fpc[f] = "idle" /\ fpc'[f] = "pending"
          /\ \A i \in PostInsts :
               pc[i] = "failed" => pc'[i] \in {"failed", "idle"}
          /\ \A f \in ProfInsts :
               fpc[f] = "failed" => fpc'[f] \in {"failed", "idle"}]_vars

\* a like and a follow of u1 have both failed: two invocations, two
\* transactions, nothing written
C13_Witness ==
    /\ pc["i1"] = "failed" /\ fpc["f1"] = "failed"
    /\ nToggles = 2 /\ nTransactions = 2
    /\ likeParity["u1"]["p1"] = FALSE

\* the recommendations on screen were computed for the profile on screen
Ranked == ~loadingRecommendations /\ recommendedPosts # <<>>

\* the feed post that a ranked result was made from
FeedPostOf(result) == CHOOSE post \in Elems(feed) : post.id = result.id

\* C14: for the viewer at latitude 0, longitude 0 with tennis rating 5, a
\* post of an owner 10 km away with tennis rating 5 has locationScore 100,
\* ratingScore 0 and score 70, a post of an owner with no location and tennis
\* rating 5 has locationScore 1000, ratingScore 0 and score 700, and the
\* first is ranked before the second.
C14_ScenarioScores ==
    \A a, b \in 1..Len(recommendedPosts) :
       LET A == FeedPostOf(recommendedPosts[a])
           B == FeedPostOf(recommendedPosts[b])
       IN  (/\ Ranked
            /\ searchProfile = [location |-> Loc(0, 0),
                                sportRatings |-> Ratings("tennis" :> 5)]
            /\ profiles[A.userId] = [location |-> Loc(10, 0),
                                     sportRatings |-> Ratings("tennis" :> 5)]
            /\ profiles[B.userId] = [location |-> NoLocation,
                                     sportRatings |-> Ratings("tennis" :> 5)])
           => /\ locationScore(postDistance(A)) = Pts(100)
              /\ ratingScore(postRatingDifference(A)) = 0
              /\ recommendedPosts[a].score = Pts(70)
              /\ locationScore(postDistance(B)) = Pts(1000)
              /\ ratingScore(postRatingDifference(B)) = 0
              /\ recommendedPosts[b].score = Pts(700)
              /\ a < b

\* C15: for the posts of the feed whose distance is known, the location
\* score does not decrease with the distance; at a distance of 10, 50 and
\* 200 km the two formulas that meet there both give 100, 300 and 600 and
\* that is the score; and no location score exceeds 1000 points, the score
\* of an unknown distance.
C15_LocationScoreMonotone ==
    /\ \A a, b \in 1..Len(feed) :
          LET da == postDistance(feed[a])
              db == postDistance(feed[b])
          IN  (da # Infinity /\ db # Infinity /\ da <= db)
                 => locationScore(da) <= locationScore(db)
    /\ \A a \in 1..Len(feed) :
          LET d == postDistance(feed[a])
          IN  /\ locationScore(d) <= Pts(1000)
              /\ locationScore(Infinity) = Pts(1000)
              /\ d = 10 => /\ UpTo10(d) = 100 /\ UpTo50(d) = 100
                           /\ locationScore(d) = Pts(100)
              /\ d = 50 => /\ UpTo50(d) = 300 /\ UpTo200(d) = 300
                           /\ locationScore(d) = Pts(300)
              /\ d = 200 => /\ UpTo200(d) = 600 /\ Above200(d) = 600
                            /\ locationScore(d) = Pts(600)

\* the viewer at Loc(1, 1) has ranked a post from 50 km and one from 51 km
C15_Witness ==
    /\ Ranked
    /\ searchProfile.location = Loc(1, 1)
    /\ \E a, b \in 1..Len(recommendedPosts) :
          /\ recommendedPosts[a].distanceKnown /\ recommendedPosts[a].distance = 50
          /\ recommendedPosts[b].distanceKnown /\ recommendedPosts[b].distance = 51

\* C16: a ranked post for which the viewer or the owner has no location and
\* no sport is rated by both has the score 730.
C16_NoDataScore ==
    \A k \in 1..Len(recommendedPosts) :
       LET post == FeedPostOf(recommendedPosts[k])
       IN  (/\ Ranked
            /\ ~searchProfile.location.has \/ ~postUserLocation(post).has
            /\ searchProfile.sportRatings.rated
                  \cap postUserRatings(post).rated = {})
           => recommendedPosts[k].score = Pts(730)

\* the viewer, located and rating tennis, has ranked the post of an owner
\* with no location who rates basketball only
C16_Witness ==
    /\ Ranked
    /\ searchProfile = [location |-> Loc(1, 1),
                        sportRatings |-> Ratings("tennis" :> 5)]
    /\ \E k \in 1..Len(recommendedPosts) :
          /\ profiles[recommendedPosts[k].userId] =
                [location |-> NoLocation, sportRatings |-> Ratings("basketball" :> 3)]
          /\ recommendedPosts[k].score = Pts(730)

\* C17: two ranked posts of equal score are in the order they have in the
\* feed.
C17_StableRanking ==
    \A a, b \in 1..Len(recommendedPosts) :
       (a < b /\ recommendedPosts[a].score = recommendedPosts[b].score)
          => recommendedPosts[a].id < recommendedPosts[b].id

\* the first and the third post of the feed tie and are ranked in that
\* order, ahead of or without the second
C17_Witness ==
    /\ Ranked
    /\ Len(recommendedPosts) = 2
    /\ recommendedPosts[1].id = 1 /\ recommendedPosts[2].id = 3
    /\ recommendedPosts[1].score = recommendedPosts[2].score
    /\ feed[2].userId # Viewer

\* C18: the ranked output has at most TopN entries (as many as there are
\* candidates, if fewer), is in ascending order of score, holds no post of
\* the viewer, holds only posts of the feed with their scores, and no post
\* of another user that is left out has a lower score than one that is in.
C18_TopNLowest ==
    LET candidates == {post \in Elems(feed) : post.userId # Viewer}
        included == {recommendedPosts[k].id : k \in 1..Len(recommendedPosts)}
    IN  /\ Len(recommendedPosts) <= TopN
        /\ Ranked => Len(recommendedPosts) = Min(TopN, Cardinality(candidates))
        /\ \A a, b \in 1..Len(recommendedPosts) :
              a < b => /\ recommendedPosts[a].score <= recommendedPosts[b].score
                       /\ recommendedPosts[a].id # recommendedPosts[b].id
        /\ \A k \in 1..Len(recommendedPosts) :
              /\ recommendedPosts[k].userId # Viewer
              /\ \E post \in candidates :
                    /\ post.id = recommendedPosts[k].id
                    /\ ScoredPost(post) = recommendedPosts[k]
        /\ Ranked =>
              \A post \in candidates : \A k \in 1..Len(recommendedPosts) :
                 post.id \notin included
                    => ScoredPost(post).score >= recommendedPosts[k].score

\* three posts of other users: the second and third are ranked, the first,
\* with a higher score, is cut
C18_Witness ==
    /\ Ranked
    /\ Len(feed) = 3 /\ \A k \in 1..3 : feed[k].userId # Viewer
    /\ Len(recommendedPosts) = TopN
    /\ recommendedPosts[1].id = 2 /\ recommendedPosts[2].id = 3
    /\ ScoredPost(feed[1]).score > recommendedPosts[2].score

RECURSIVE SumOfDifferences(_, _, _)
\* the sum of |a.value[s] - b.value[s]| over the sports of a set
SumOfDifferences(sports, a, b) ==
    IF sports = {} THEN 0
    ELSE LET s == CHOOSE x \in sports : TRUE
         IN  Abs(a.value[s] - b.value[s]) + SumOfDifferences(sports \ {s}, a, b)

\* C19: the rating difference of the viewer and a post's owner is the sum of
\* the absolute differences over the sports both have a rating for (a
\* rating of 0 included), divided by their number, and is unknown (rating
\* score 100) only when there is no such sport.
C19_RatingDifferenceOverCommonSports ==
    \A k \in 1..Len(feed) :
       LET mine == searchProfile.sportRatings
           theirs == postUserRatings(feed[k])
           both == mine.rated \cap theirs.rated
       IN  /\ both # {} =>
                 /\ postRatingDifference(feed[k]) =
                       Pts(SumOfDifferences(both, mine, theirs)) \div Cardinality(both)
                 /\ ratingScore(postRatingDifference(feed[k])) =
                       (Pts(SumOfDifferences(both, mine, theirs)) \div Cardinality(both)) * 10
           /\ both = {} =>
                 /\ postRatingDifference(feed[k]) = Infinity
                 /\ ratingScore(postRatingDifference(feed[k])) = Pts(100)

\* C20: a ranked post carries the 'Recommended' badge exactly when its score
\* is below 500, the score 0 included; every ranked post is shown with or
\* without the badge.
C20_RecommendedBelow500 ==
    \A k \in 1..Len(recommendedPosts) :
       Recommended(recommendedPosts[k]) <=> recommendedPosts[k].score < Pts(500)

\* C21: whenever the viewer's profile has no location and no sport rating
\* (in the store and as the Search component knows it) and no load is
\* running, the Explore tab shows the first ten recent posts in recency
\* order and not a scored list.
C21_NoSignalShowsRecent ==
    (/\ ~HasProfileData(SnapshotProfile(profiles[Viewer]))
     /\ ~HasProfileData(searchProfile)
     /\ ~loadingRecommendations)
      => ExploreList = Slice(recentPosts, 10)

\* C22: when handleDeleteAccount of a user completes, the store holds no
\* post of that user and no comment of that user, on any post.
C22_DeletionRemovesPostsAndComments ==
    [][\A u \in Users :
         (delPc[u] # "done" /\ delPc'[u] = "done")
           => /\ \A p \in Posts : posts'[p].exists => PostOwner[p] # u
              /\ \A p \in Threads : ~Includes(comments'[p], u)]_vars

\* C24: after any sequence of addComment calls that commit or fail, the
\* commentCount of every post in the store equals the number of comment
\* documents created under it (both start at 0).
C24_CommentCountIsThreadLength ==
    \A p \in Threads : ThreadExists(p) => commentCount[p] = Len(comments[p])

C24_Witness ==
    /\ posts["p1"].exists
    /\ comments["p1"] = <<"u1", "u3">>
    /\ commentCount["p1"] = 2
    /\ submittingComment["c2"]

\* C23: when handleDeleteAccount of a user completes, no remaining user
\* document holds that user's id in followers or in following, also when
\* follows and unfollows of that user commit while the deletion runs.
C23_DeletionRemovesFollowEntries ==
    [][\A u \in Users :
         (delPc[u] # "done" /\ delPc'[u] = "done")
           => \A v \in Users \ {u} :
                users'[v].exists
                  => /\ ~Includes(users'[v].followers, u)
                     /\ ~Includes(users'[v].following, u)]_vars

\* C27: the commit of the deletion of U leaves every entry other than U in
\* the followers and following of another user's document as it is in the
\* store at that time, so that follows between other users committed since
\* the deletion read the users are kept, and the counts equal the set sizes.
C27_DeletionKeepsOtherFollows ==
    [][\A u \in Users :
         (delPc[u] # "done" /\ delPc'[u] = "done")
           => \A v \in Users \ {u} :
                users[v].exists
                  => /\ users'[v].exists
                     /\ Without(users'[v].followers, u) = Without(users[v].followers, u)
                     /\ Without(users'[v].following, u) = Without(users[v].following, u)
                     /\ users'[v].followersCount = Len(users'[v].followers)
                     /\ users'[v].followingCount = Len(users'[v].following)]_vars

NoDuplicates(arr) ==
    \A a, b \in 1..Len(arr) : arr[a] = arr[b] => a = b

C26_LikeRelationSymmetric ==
    \A p \in Posts : \A u \in Users :
       (posts[p].exists /\ users[u].exists)
         => (Includes(posts[p].likes, u) <=> Includes(users[u].likedPosts, p))

C26_Witness ==
    /\ posts["p1"].likes = <<"u2">>
    /\ users["u2"].likedPosts = <<"p1">>
    /\ users["u1"].exists /\ users["u1"].likedPosts = <<>>
    /\ likeParity["u1"]["p1"] = FALSE
    /\ nToggles = 3

RECURSIVE Concat(_)
Concat(lists) ==
    IF lists = <<>> THEN <<>> ELSE Head(lists) \o Concat(Tail(lists))

\* C28: every 'in' query carries at most 10 values, and the value lists of
\* the queries of one load are consecutive pieces of the id list that
\* together hold every id exactly once, in order.
C28_InQueriesAtMostTen ==
    [][lastLoad' # lastLoad \/ inQueries' # inQueries
         => /\ \A k \in 1..Len(inQueries') :
                  Len(inQueries'[k]) >= 1 /\ Len(inQueries'[k]) <= 10
            /\ Concat(inQueries') = ids']_vars

====
